---- MODULE Spec2Model ----
(***************************************************************************)
(* Model of the velero-vmgroup-plugin item actions:                        *)
(*   VMGroupBackupItemAction.Execute  (pkg/plugin/pvc_restore.go)          *)
(*   VMRestoreItemAction.Execute      (vmgroup_restore.go, two revisions)  *)
(*   PVCRestoreItemAction.Execute     (pkg/plugin/pvc_restore.go)          *)
(* Every Execute is one atomic action: the host framework calls it once    *)
(* per object and the handler runs to its return.                          *)
(***************************************************************************)
EXTENDS Naturals, Sequences, FiniteSets

VARIABLES
    op,       \* the item kind that is pending, then the handler that has been invoked
    bkItem,   \* backup: the VirtualMachineGroup item handed to Execute
    bkApi,    \* backup: the API server's answer to client.Get, per member name
    bkOut,    \* backup: what Execute returned, and the lookups it issued
    vmIn,     \* restore: the VirtualMachine item as handed to Execute
    vmAfter,  \* restore: the content of input.Item when Execute has returned
    vmOut,    \* restore: what Execute returned
    vmAgain,  \* restore: what Execute returned when called on its own output
    pvcIn,    \* restore: the PersistentVolumeClaim item as handed to Execute
    pvcOut,   \* restore: what the PersistentVolumeClaim action returned
    pvcAgain, \* restore: what that action returned when called on its own output
    rsPc,     \* restore: the orchestrator's position in restoring the item
    created,  \* restore: identifiers the orchestrator has created in the cluster
    ready,    \* restore: created identifiers that have become ready
    wk,       \* concurrent invocations: per worker its task, position, locals, output
    cells,    \* concurrent invocations: the storage of the modified flags
    rq        \* restore of a whole backup: the items, their positions and their hints

vars ==
    <<op, bkItem, bkApi, bkOut, vmIn, vmAfter, vmOut, vmAgain, pvcIn, pvcOut, pvcAgain,
      rsPc, created, ready, wk, cells, rq>>

concVars == <<wk, cells, rq>>

(***************************************************************************)
(* Bounds of the model                                                     *)
(***************************************************************************)
MaxPhases == 2

MaxMembers == 2

MaxVolumes == 1

(***************************************************************************)
(* Bounded sequences                                                       *)
(***************************************************************************)
SeqUpTo(S, n) == UNION {[1..k -> S] : k \in 0..n}

Range(s) == {s[i] : i \in DOMAIN s}

RECURSIVE Count(_, _)
Count(s, x) ==
    IF s = <<>> THEN 0
    ELSE (IF Head(s) = x THEN 1 ELSE 0) + Count(Tail(s), x)

RECURSIVE Flatten(_)
Flatten(ss) == IF ss = <<>> THEN <<>> ELSE Head(ss) \o Flatten(Tail(ss))

(***************************************************************************)
(* Input domains                                                           *)
(***************************************************************************)
Namespaces == {"ns"}

MemberNames == {"vm-1", "vm-2"}

SecretNames == {"s1"}

ClaimNames == {"pvc-1"}

\* vm.Spec.Bootstrap / .CloudInit / .RawCloudConfig are pointers; Name is a string.
BootstrapSpecs ==
    {[Bootstrap |-> FALSE, CloudInit |-> FALSE, RawCloudConfig |-> FALSE, Name |-> ""],
     [Bootstrap |-> TRUE,  CloudInit |-> FALSE, RawCloudConfig |-> FALSE, Name |-> ""],
     [Bootstrap |-> TRUE,  CloudInit |-> TRUE,  RawCloudConfig |-> FALSE, Name |-> ""]}
    \cup {[Bootstrap |-> TRUE, CloudInit |-> TRUE, RawCloudConfig |-> TRUE, Name |-> n] :
            n \in {""} \cup SecretNames}

\* one entry of vm.Spec.Volumes: PersistentVolumeClaim is a pointer.
VolumeEntries ==
    {[Name |-> "vol", PersistentVolumeClaim |-> FALSE, ClaimName |-> ""]}
    \cup {[Name |-> "vol", PersistentVolumeClaim |-> TRUE, ClaimName |-> c] :
            c \in {""} \cup ClaimNames}

VirtualMachines ==
    [Bootstrap : BootstrapSpecs, Volumes : SeqUpTo(VolumeEntries, MaxVolumes)]

NilVM ==
    [Bootstrap |-> [Bootstrap |-> FALSE, CloudInit |-> FALSE,
                    RawCloudConfig |-> FALSE, Name |-> ""],
     Volumes |-> <<>>]

\* what client.Get answers for one key: the object, or an error
GetResults ==
    {[ok |-> TRUE, vm |-> v] : v \in VirtualMachines} \cup {[ok |-> FALSE, vm |-> NilVM]}

\* the answers of the API server for the keys one Execute can ask for
ApiServers(names) == [names -> GetResults]

\* at most MaxPhases boot phases holding at most MaxMembers members in all
PhaseLists ==
    {p \in SeqUpTo(SeqUpTo(MemberNames, MaxMembers), MaxPhases) :
        Len(Flatten(p)) <= MaxMembers}

\* spec.bootOrder of the item: absent, a list of phases, or a value that is no list
BootOrders ==
    {[kind |-> "absent", phases |-> <<>>], [kind |-> "malformed", phases |-> <<>>]}
    \cup {[kind |-> "list", phases |-> p] : p \in PhaseLists}

GroupItems == [Namespace : Namespaces, Name : {"g1"}, BootOrder : BootOrders]

(***************************************************************************)
(* ResourceIdentifier values                                               *)
(***************************************************************************)
ResourceIdentifier(group, resource, namespace, name) ==
    [Group |-> group, Resource |-> resource, Namespace |-> namespace, Name |-> name]

VMIdentifier(namespace, name) ==
    ResourceIdentifier("vmoperator.vmware.com", "virtualmachines", namespace, name)

SecretIdentifier(namespace, name) ==
    ResourceIdentifier("", "secrets", namespace, name)

PVCIdentifier(namespace, name) ==
    ResourceIdentifier("", "persistentvolumeclaims", namespace, name)

VMGroupIdentifier(namespace, name) ==
    ResourceIdentifier("vmoperator.vmware.com", "virtualmachinegroups", namespace, name)

(***************************************************************************)
(* VMGroupBackupItemAction                                                 *)
(***************************************************************************)
getVirtualMachine(api, namespace, name) == api[name]

\* variant: the empty-name test is missing
extractSecretsFromVM_NoEmptyCheck(vm, namespace) ==
    IF ~vm.Bootstrap.Bootstrap THEN <<>>
    ELSE IF ~vm.Bootstrap.CloudInit THEN <<>>
    ELSE IF ~vm.Bootstrap.RawCloudConfig THEN <<>>
    ELSE <<SecretIdentifier(namespace, vm.Bootstrap.Name)>>

extractSecretsFromVM(vm, namespace) ==
    IF ~vm.Bootstrap.Bootstrap THEN <<>>
    ELSE IF ~vm.Bootstrap.CloudInit THEN <<>>
    ELSE IF ~vm.Bootstrap.RawCloudConfig THEN <<>>
    ELSE IF vm.Bootstrap.Name = "" THEN <<>>
    ELSE <<SecretIdentifier(namespace, vm.Bootstrap.Name)>>

\* variant: the empty-claim-name test is missing
RECURSIVE extractPVCsFromVolumes_NoEmptyCheck(_, _)
extractPVCsFromVolumes_NoEmptyCheck(volumes, namespace) ==
    IF volumes = <<>> THEN <<>>
    ELSE LET volume == Head(volumes)
             rest == extractPVCsFromVolumes_NoEmptyCheck(Tail(volumes), namespace)
         IN  IF ~volume.PersistentVolumeClaim THEN rest
             ELSE <<PVCIdentifier(namespace, volume.ClaimName)>> \o rest

RECURSIVE extractPVCsFromVolumes(_, _)
extractPVCsFromVolumes(volumes, namespace) ==
    IF volumes = <<>> THEN <<>>
    ELSE LET volume == Head(volumes)
             rest == extractPVCsFromVolumes(Tail(volumes), namespace)
         IN  IF ~volume.PersistentVolumeClaim THEN rest
             ELSE IF volume.ClaimName = "" THEN rest
             ELSE <<PVCIdentifier(namespace, volume.ClaimName)>> \o rest

extractPVCsFromVM(vm, namespace) == extractPVCsFromVolumes(vm.Volumes, namespace)

\* variant: the member's own identifier is appended only after a successful fetch
ProcessMember_VMAfterGet(acc, api, namespace, vmName) ==
    LET got == getVirtualMachine(api, namespace, vmName)
        looked == Append(acc.lookups,
                         [Namespace |-> namespace, Name |-> vmName, ok |-> got.ok,
                          vm |-> got.vm])
    IN  IF ~got.ok
        THEN [additionalItems |-> acc.additionalItems, lookups |-> looked]
        ELSE [additionalItems |->
                 Append(acc.additionalItems, VMIdentifier(namespace, vmName))
                        \o extractSecretsFromVM(got.vm, namespace)
                        \o extractPVCsFromVM(got.vm, namespace),
              lookups |-> looked]

\* variant: the extracted secrets are never appended
ProcessMember_NoSecrets(acc, api, namespace, vmName) ==
    LET withVM == Append(acc.additionalItems, VMIdentifier(namespace, vmName))
        got == getVirtualMachine(api, namespace, vmName)
        looked == Append(acc.lookups,
                         [Namespace |-> namespace, Name |-> vmName, ok |-> got.ok,
                          vm |-> got.vm])
    IN  IF ~got.ok
        THEN [additionalItems |-> withVM, lookups |-> looked]
        ELSE [additionalItems |-> withVM \o extractPVCsFromVM(got.vm, namespace),
              lookups |-> looked]

\* variant: an identifier already in the list is not appended again
RECURSIVE AppendNew(_, _)
AppendNew(items, more) ==
    IF more = <<>> THEN items
    ELSE AppendNew(IF \E i \in 1..Len(items) : items[i] = Head(more)
                   THEN items ELSE Append(items, Head(more)),
                   Tail(more))

ProcessMember_Dedup(acc, api, namespace, vmName) ==
    LET withVM == AppendNew(acc.additionalItems, <<VMIdentifier(namespace, vmName)>>)
        got == getVirtualMachine(api, namespace, vmName)
        looked == Append(acc.lookups,
                         [Namespace |-> namespace, Name |-> vmName, ok |-> got.ok,
                          vm |-> got.vm])
    IN  IF ~got.ok
        THEN [additionalItems |-> withVM, lookups |-> looked]
        ELSE [additionalItems |->
                 AppendNew(withVM, extractSecretsFromVM(got.vm, namespace)
                                   \o extractPVCsFromVM(got.vm, namespace)),
              lookups |-> looked]

\* variant: a failed fetch is tried a second time
ProcessMember_Retry(acc, api, namespace, vmName) ==
    LET withVM == Append(acc.additionalItems, VMIdentifier(namespace, vmName))
        got == getVirtualMachine(api, namespace, vmName)
        entry == [Namespace |-> namespace, Name |-> vmName, ok |-> got.ok, vm |-> got.vm]
    IN  IF ~got.ok
        THEN [additionalItems |-> withVM, lookups |-> acc.lookups \o <<entry, entry>>]
        ELSE [additionalItems |->
                 withVM \o extractSecretsFromVM(got.vm, namespace)
                        \o extractPVCsFromVM(got.vm, namespace),
              lookups |-> Append(acc.lookups, entry)]

\* body of the inner loop: acc carries additionalItems and the lookups issued so far
ProcessMember(acc, api, namespace, vmName) ==
    LET withVM == Append(acc.additionalItems, VMIdentifier(namespace, vmName))
        got == getVirtualMachine(api, namespace, vmName)
        looked == Append(acc.lookups,
                         [Namespace |-> namespace, Name |-> vmName, ok |-> got.ok,
                          vm |-> got.vm])
    IN  IF ~got.ok
        THEN [additionalItems |-> withVM, lookups |-> looked]
        ELSE [additionalItems |->
                 withVM \o extractSecretsFromVM(got.vm, namespace)
                        \o extractPVCsFromVM(got.vm, namespace),
              lookups |-> looked]

\* variant: a failed fetch leaves the loop (break) instead of continuing
RECURSIVE ProcessMembers_Break(_, _, _, _)
ProcessMembers_Break(acc, api, namespace, members) ==
    IF members = <<>> THEN acc
    ELSE LET next == ProcessMember(acc, api, namespace, Head(members))
         IN  IF ~next.lookups[Len(next.lookups)].ok THEN next
             ELSE ProcessMembers_Break(next, api, namespace, Tail(members))

RECURSIVE ProcessMembers(_, _, _, _)
ProcessMembers(acc, api, namespace, members) ==
    IF members = <<>> THEN acc
    ELSE ProcessMembers(ProcessMember(acc, api, namespace, Head(members)),
                        api, namespace, Tail(members))

RECURSIVE ProcessBootOrder(_, _, _, _)
ProcessBootOrder(acc, api, namespace, bootOrder) ==
    IF bootOrder = <<>> THEN acc
    ELSE ProcessBootOrder(ProcessMembers(acc, api, namespace, Head(bootOrder)),
                          api, namespace, Tail(bootOrder))

\* the writes Execute issues to the API server for the member VirtualMachines, as
\* (member name, label key, label value): the only client call is Get, so none
MemberUpdates(item, api) == {}

\* variant: a group without boot order is reported as an error
VMGroupBackupExecute_NilIsError(item, api) ==
    IF item.BootOrder.kind = "malformed" \/ item.BootOrder.kind = "absent"
    THEN [item |-> <<>>, additionalItems |-> <<>>, err |-> TRUE, lookups |-> <<>>]
    ELSE LET acc == ProcessBootOrder([additionalItems |-> <<>>, lookups |-> <<>>],
                                     api, item.Namespace, item.BootOrder.phases)
         IN  [item |-> <<item>>, additionalItems |-> acc.additionalItems,
              err |-> FALSE, lookups |-> acc.lookups]

\* variant: the returned item is rebuilt from the typed group, which leaves out a
\* boot order without phases
VMGroupBackupExecute_Rebuilt(item, api) ==
    IF item.BootOrder.kind = "malformed"
    THEN [item |-> <<>>, additionalItems |-> <<>>, err |-> TRUE, lookups |-> <<>>]
    ELSE IF item.BootOrder.kind = "absent"
    THEN [item |-> <<item>>, additionalItems |-> <<>>, err |-> FALSE, lookups |-> <<>>]
    ELSE LET acc == ProcessBootOrder([additionalItems |-> <<>>, lookups |-> <<>>],
                                     api, item.Namespace, item.BootOrder.phases)
         IN  [item |-> << IF item.BootOrder.phases = <<>>
                          THEN [item EXCEPT !.BootOrder = [kind |-> "absent",
                                                           phases |-> <<>>]]
                          ELSE item >>,
              additionalItems |-> acc.additionalItems,
              err |-> FALSE, lookups |-> acc.lookups]

\* the value Execute returns: (item, additionalItems, err), with the lookups it made
VMGroupBackupExecute(item, api) ==
    IF item.BootOrder.kind = "malformed"
    THEN [item |-> <<>>, additionalItems |-> <<>>, err |-> TRUE, lookups |-> <<>>]
    ELSE IF item.BootOrder.kind = "absent"
    THEN [item |-> <<item>>, additionalItems |-> <<>>, err |-> FALSE, lookups |-> <<>>]
    ELSE LET acc == ProcessBootOrder([additionalItems |-> <<>>, lookups |-> <<>>],
                                     api, item.Namespace, item.BootOrder.phases)
         IN  [item |-> <<item>>, additionalItems |-> acc.additionalItems,
              err |-> FALSE, lookups |-> acc.lookups]

(***************************************************************************)
(* VirtualMachine items (unstructured content)                             *)
(***************************************************************************)
FirstBootDoneKey == "virtualmachine.vmoperator.vmware.com/first-boot-done"

OtherKey == "example.com/keep"

\* an annotation map is a set of <<key, value>> pairs
AnnotationMaps == SUBSET {<<FirstBootDoneKey, "true">>, <<OtherKey, "x">>}

EmptyMap == {}

NetA == {<<"interfaces", "eth0=10.0.0.1">>}

NetB == {<<"interfaces", "eth0=10.0.0.2">>}

\* a nested section: absent, a map, or a value that is no map
Sections ==
    {[kind |-> "absent", value |-> EmptyMap], [kind |-> "malformed", value |-> EmptyMap]}
    \cup {[kind |-> "map", value |-> v] : v \in {EmptyMap, NetA, NetB}}

GroupNames == {"g1", "g2"}

\* spec.groupName: absent, a string, or a value that is no string
GroupNameFields ==
    {[kind |-> "absent", value |-> ""], [kind |-> "malformed", value |-> ""]}
    \cup {[kind |-> "string", value |-> g] : g \in {""} \cup GroupNames}

VMItems ==
    [namespace : {"ns", "other"},
     name : {"vm-1"},
     annotations : {[present |-> FALSE, map |-> {}]}
                   \cup {[present |-> TRUE, map |-> m] : m \in AnnotationMaps},
     instanceUUID : {[present |-> FALSE, value |-> ""], [present |-> TRUE, value |-> ""],
                     [present |-> TRUE, value |-> "abc"]},
     groupName : GroupNameFields,
     network : Sections,
     statusConfig : Sections]

\* runtime.DefaultUnstructuredConverter.FromUnstructured fails on a field whose
\* value has not the type of the VirtualMachine field
ConversionFails(obj) ==
    \/ obj.groupName.kind = "malformed"
    \/ obj.network.kind = "malformed"
    \/ obj.statusConfig.kind = "malformed"

\* vm.Spec.GroupName of the converted object
TypedGroupName(obj) == IF obj.groupName.kind = "string" THEN obj.groupName.value ELSE ""

\* variant: the wait flag is set whether a group is named or not
OrderingHint_AlwaysWait(namespace, vmGroupName) ==
    IF vmGroupName # ""
    THEN [additionalItems |-> <<VMGroupIdentifier(namespace, vmGroupName)>>,
          wait |-> TRUE]
    ELSE [additionalItems |-> <<>>, wait |-> TRUE]

\* variant: the hint names the VirtualMachine vm-1 itself
OrderingHint_Self(namespace, vmGroupName) ==
    [additionalItems |-> <<VMIdentifier(namespace, "vm-1")>>, wait |-> TRUE]

\* variant: the additional item is named but the wait flag is left unset
OrderingHint_NoWait(namespace, vmGroupName) ==
    IF vmGroupName # ""
    THEN [additionalItems |-> <<VMGroupIdentifier(namespace, vmGroupName)>>,
          wait |-> FALSE]
    ELSE [additionalItems |-> <<>>, wait |-> FALSE]

\* variant: the wait flag is set but the additional item is not named
OrderingHint_NoItem(namespace, vmGroupName) ==
    IF vmGroupName # ""
    THEN [additionalItems |-> <<>>, wait |-> TRUE]
    ELSE [additionalItems |-> <<>>, wait |-> FALSE]

\* AdditionalItems and WaitForAdditionalItems of the output
OrderingHint(namespace, vmGroupName) ==
    IF vmGroupName # ""
    THEN [additionalItems |-> <<VMGroupIdentifier(namespace, vmGroupName)>>,
          wait |-> TRUE]
    ELSE [additionalItems |-> <<>>, wait |-> FALSE]

\* variant: status.network.config is copied without looking at spec.network
injectNetworkConfigFromStatus_Overwrite(obj) ==
    IF obj.statusConfig.kind # "map" THEN [obj |-> obj, injected |-> FALSE]
    ELSE [obj |-> [obj EXCEPT !.network = [kind |-> "map", value |-> obj.statusConfig.value]],
          injected |-> TRUE]

\* variant: status.network.config is moved, not copied
injectNetworkConfigFromStatus_Move(obj) ==
    IF obj.network.kind = "map" THEN [obj |-> obj, injected |-> FALSE]
    ELSE IF obj.statusConfig.kind # "map" THEN [obj |-> obj, injected |-> FALSE]
    ELSE [obj |-> [obj EXCEPT !.network = [kind |-> "map", value |-> obj.statusConfig.value],
                              !.statusConfig = [kind |-> "absent", value |-> EmptyMap]],
          injected |-> TRUE]

\* variant: a missing status.network.config is copied as an empty section
injectNetworkConfigFromStatus_NoFoundCheck(obj) ==
    IF obj.network.kind = "map" THEN [obj |-> obj, injected |-> FALSE]
    ELSE [obj |-> [obj EXCEPT !.network = [kind |-> "map", value |-> obj.statusConfig.value]],
          injected |-> TRUE]

\* returns the object after the step and the step's boolean result
injectNetworkConfigFromStatus(obj) ==
    IF obj.network.kind = "map" THEN [obj |-> obj, injected |-> FALSE]
    ELSE IF obj.statusConfig.kind # "map" THEN [obj |-> obj, injected |-> FALSE]
    ELSE [obj |-> [obj EXCEPT !.network = [kind |-> "map", value |-> obj.statusConfig.value]],
          injected |-> TRUE]

\* variant: the identifier is cleared but the change is not reported
removeInstanceUUID_Silent(obj) ==
    IF obj.instanceUUID.present /\ obj.instanceUUID.value # ""
    THEN [obj |-> [obj EXCEPT !.instanceUUID = [present |-> TRUE, value |-> ""]],
          modified |-> FALSE]
    ELSE [obj |-> obj, modified |-> FALSE]

\* variant: the field is set to the empty string whether it is found or not
removeInstanceUUID_SetAlways(obj) ==
    [obj |-> [obj EXCEPT !.instanceUUID = [present |-> TRUE, value |-> ""]],
     modified |-> obj.instanceUUID.value # ""]

\* variant: the field is cleared whenever it is found, empty or not
removeInstanceUUID_NoEmptyCheck(obj) ==
    IF obj.instanceUUID.present
    THEN [obj |-> [obj EXCEPT !.instanceUUID = [present |-> TRUE, value |-> ""]],
          modified |-> TRUE]
    ELSE [obj |-> obj, modified |-> FALSE]

\* clears a non-empty spec.instanceUUID
removeInstanceUUID(obj) ==
    IF obj.instanceUUID.present /\ obj.instanceUUID.value # ""
    THEN [obj |-> [obj EXCEPT !.instanceUUID = [present |-> TRUE, value |-> ""]],
          modified |-> TRUE]
    ELSE [obj |-> obj, modified |-> FALSE]

\* variant: every annotation is dropped with the first-boot-done key
removeFirstBootDone_All(obj) ==
    IF obj.annotations.present
       /\ \E kv \in obj.annotations.map : kv[1] = FirstBootDoneKey
    THEN [obj |-> [obj EXCEPT !.annotations.map = {}], modified |-> TRUE]
    ELSE [obj |-> obj, modified |-> FALSE]

\* deletes the first-boot-done key from metadata.annotations
removeFirstBootDone(obj) ==
    IF obj.annotations.present
       /\ \E kv \in obj.annotations.map : kv[1] = FirstBootDoneKey
    THEN [obj |-> [obj EXCEPT !.annotations.map =
                      {kv \in obj.annotations.map : kv[1] # FirstBootDoneKey}],
          modified |-> TRUE]
    ELSE [obj |-> obj, modified |-> FALSE]

NoVMOutput ==
    [err |-> FALSE, item |-> <<>>, additionalItems |-> <<>>, wait |-> FALSE,
     modified |-> FALSE, injected |-> FALSE]

\* VMRestoreItemAction.Execute working on the unstructured content: the content of
\* input.Item is changed in place; returns the output and that content
VMRestoreExecute(item) ==
    LET s1 == removeInstanceUUID(item)
        s2 == removeFirstBootDone(s1.obj)
        s3 == injectNetworkConfigFromStatus(s2.obj)
        obj == s3.obj
        modified == s1.modified \/ s2.modified \/ s3.injected
        hint == OrderingHint(obj.namespace, TypedGroupName(obj))
    IN  IF ConversionFails(obj)
        THEN [after |-> obj,
              out |-> [err |-> TRUE, item |-> <<>>, additionalItems |-> <<>>,
                       wait |-> FALSE, modified |-> modified, injected |-> s3.injected]]
        ELSE [after |-> obj,
              out |-> [err |-> FALSE, item |-> <<obj>>,
                       additionalItems |-> hint.additionalItems, wait |-> hint.wait,
                       modified |-> modified, injected |-> s3.injected]]

\* runtime.DefaultUnstructuredConverter.ToUnstructured of the typed VirtualMachine:
\* omitempty fields that are empty are left out
ToUnstructured(obj) ==
    [obj EXCEPT
       !.annotations = IF obj.annotations.map = {} THEN [present |-> FALSE, map |-> {}]
                       ELSE obj.annotations,
       !.instanceUUID = IF obj.instanceUUID.value = "" THEN [present |-> FALSE, value |-> ""]
                        ELSE obj.instanceUUID,
       !.groupName = IF obj.groupName.value = "" THEN [kind |-> "absent", value |-> ""]
                     ELSE obj.groupName]

\* variant: the typed object is converted back whether it was modified or not
VMRestoreExecuteTyped_AlwaysConvert(item) ==
    IF ConversionFails(item)
    THEN [after |-> item,
          out |-> [err |-> TRUE, item |-> <<>>, additionalItems |-> <<>>,
                   wait |-> FALSE, modified |-> FALSE, injected |-> FALSE]]
    ELSE LET s1 == removeInstanceUUID(item)
             s2 == removeFirstBootDone(s1.obj)
             modified == s1.modified \/ s2.modified
             hint == OrderingHint(item.namespace, TypedGroupName(item))
         IN  [after |-> item,
              out |-> [err |-> FALSE,
                       item |-> <<ToUnstructured(s2.obj)>>,
                       additionalItems |-> hint.additionalItems, wait |-> hint.wait,
                       modified |-> modified, injected |-> FALSE]]

\* VMRestoreItemAction.Execute working on the typed object (the revision without
\* network injection): the input item is converted first and never changed
VMRestoreExecuteTyped(item) ==
    IF ConversionFails(item)
    THEN [after |-> item,
          out |-> [err |-> TRUE, item |-> <<>>, additionalItems |-> <<>>,
                   wait |-> FALSE, modified |-> FALSE, injected |-> FALSE]]
    ELSE LET s1 == removeInstanceUUID(item)
             s2 == removeFirstBootDone(s1.obj)
             modified == s1.modified \/ s2.modified
             hint == OrderingHint(item.namespace, TypedGroupName(item))
         IN  [after |-> item,
              out |-> [err |-> FALSE,
                       item |-> IF modified THEN <<ToUnstructured(s2.obj)>> ELSE <<item>>,
                       additionalItems |-> hint.additionalItems, wait |-> hint.wait,
                       modified |-> modified, injected |-> FALSE]]

(***************************************************************************)
(* PersistentVolumeClaim items and PVCRestoreItemAction.Execute            *)
(***************************************************************************)
HealthKey == "volumehealth.storage.kubernetes.io/health"

PVCAnnotationMaps == SUBSET {<<HealthKey, "accessible">>, <<OtherKey, "x">>}

\* spec.volumeName: absent, a string, or a value that is no string
VolumeNameFields ==
    {[kind |-> "absent", value |-> ""], [kind |-> "malformed", value |-> ""],
     [kind |-> "string", value |-> ""], [kind |-> "string", value |-> "pv-1"]}

PVCItems ==
    [namespace : {"ns"},
     name : ClaimNames,
     annotations : {[present |-> FALSE, map |-> {}]}
                   \cup {[present |-> TRUE, map |-> m] : m \in PVCAnnotationMaps},
     volumeName : VolumeNameFields,
     status : {[present |-> FALSE], [present |-> TRUE]}]

\* FromUnstructured fails on a field whose value has not the type of the
\* PersistentVolumeClaim field
PVCConversionFails(obj) == obj.volumeName.kind = "malformed"

\* delete(pvc.Annotations, health key) on the typed object
removeVolumeHealth(pvc) ==
    IF pvc.annotations.present /\ \E kv \in pvc.annotations.map : kv[1] = HealthKey
    THEN [pvc EXCEPT !.annotations.map = {kv \in pvc.annotations.map : kv[1] # HealthKey}]
    ELSE pvc

\* ToUnstructured of the typed PersistentVolumeClaim: omitempty strings and maps that
\* are empty are left out, the status struct is always written
PVCToUnstructured(pvc) ==
    [pvc EXCEPT
       !.annotations = IF pvc.annotations.map = {} THEN [present |-> FALSE, map |-> {}]
                       ELSE pvc.annotations,
       !.volumeName = IF pvc.volumeName.value = "" THEN [kind |-> "absent", value |-> ""]
                      ELSE pvc.volumeName,
       !.status = [present |-> TRUE]]

NoPVCOutput == [err |-> FALSE, item |-> <<>>]

\* PVCRestoreItemAction.Execute: the item is converted to the typed object, the
\* health annotation is deleted, and the typed object is converted back
PVCRestoreExecute(item) ==
    IF PVCConversionFails(item)
    THEN [err |-> TRUE, item |-> <<>>]
    ELSE [err |-> FALSE, item |-> <<PVCToUnstructured(removeVolumeHealth(item))>>]

NoPVC ==
    [namespace |-> "ns", name |-> "pvc-1",
     annotations |-> [present |-> FALSE, map |-> {}],
     volumeName |-> [kind |-> "absent", value |-> ""],
     status |-> [present |-> FALSE]]

NoVM ==
    [namespace |-> "ns", name |-> "vm-1",
     annotations |-> [present |-> FALSE, map |-> {}],
     instanceUUID |-> [present |-> FALSE, value |-> ""],
     groupName |-> [kind |-> "absent", value |-> ""],
     network |-> [kind |-> "absent", value |-> EmptyMap],
     statusConfig |-> [kind |-> "absent", value |-> EmptyMap]]

NoOutput == [item |-> <<>>, additionalItems |-> <<>>, err |-> FALSE, lookups |-> <<>>]

NoGroup ==
    [Namespace |-> "ns", Name |-> "g1", BootOrder |-> [kind |-> "absent", phases |-> <<>>]]

(***************************************************************************)
(* Resource selectors                                                      *)
(***************************************************************************)
VMGroupBackupAppliesTo ==
    [IncludedResources |-> <<"virtualmachinegroups.vmoperator.vmware.com">>,
     err |-> FALSE]

\* variant: a selector without included resources, which selects every resource
VMRestoreAppliesTo_Unrestricted == [IncludedResources |-> <<>>, err |-> FALSE]

VMRestoreAppliesTo ==
    [IncludedResources |-> <<"virtualmachines.vmoperator.vmware.com">>, err |-> FALSE]

PVCRestoreAppliesTo ==
    [IncludedResources |-> <<"persistentvolumeclaims">>, err |-> FALSE]

\* the host framework hands a resource to an action when the action's selector has
\* returned without error and includes the resource (no included resource: all)
Selects(selector, resource) ==
    /\ ~selector.err
    /\ \/ selector.IncludedResources = <<>>
       \/ resource \in Range(selector.IncludedResources)

(***************************************************************************)
(* Errors returned to the host framework                                   *)
(***************************************************************************)
\* what an error built by errors.Wrap(err, "failed to convert item to <Kind>") says
\* about the object: the kind in the fixed message, no namespace and no name
WrapConversionError(kind) == [kind |-> kind, namespace |-> "", name |-> ""]

NoError == [kind |-> "", namespace |-> "", name |-> ""]

\* the error value returned with each output
VMGroupBackupError(out) ==
    IF out.err THEN WrapConversionError("VirtualMachineGroup") ELSE NoError

VMRestoreError(out) ==
    IF out.err THEN WrapConversionError("VirtualMachine") ELSE NoError

PVCRestoreError(out) ==
    IF out.err THEN WrapConversionError("PersistentVolumeClaim") ELSE NoError

(***************************************************************************)
(* The plugin process                                                      *)
(***************************************************************************)
\* the actions main registers with the framework server before it serves
RegisteredActions ==
    {[name |-> "lubronzhan.io/vm-restore", kind |-> "RestoreItemAction"],
     [name |-> "lubronzhan.io/pvc-restore", kind |-> "RestoreItemAction"]}

\* the host framework holds one item it is about to hand to the action that
\* applies to it: a VirtualMachineGroup to back up, or a VirtualMachine or a
\* PersistentVolumeClaim to restore
Init ==
    /\ \/ /\ op = "pendingGroup"
          /\ bkItem \in GroupItems
          /\ vmIn = NoVM
          /\ pvcIn = NoPVC
       \/ /\ op = "pendingVM"
          /\ bkItem = NoGroup
          /\ vmIn \in VMItems
          /\ pvcIn = NoPVC
       \/ /\ op = "pendingPVC"
          /\ bkItem = NoGroup
          /\ vmIn = NoVM
          /\ pvcIn \in PVCItems
    /\ vmAgain = NoVMOutput
    /\ pvcOut = NoPVCOutput
    /\ pvcAgain = NoPVCOutput
    /\ bkApi = <<>>
    /\ bkOut = NoOutput
    /\ vmAfter = vmIn
    /\ vmOut = NoVMOutput
    /\ rsPc = "idle"
    /\ created = {}
    /\ ready = {}
    /\ wk = <<>>
    /\ cells = <<>>
    /\ rq = <<>>

\* the host framework backs up the VirtualMachineGroup and calls the backup action;
\* the API server answers the lookups of this call
BackupExecute ==
    /\ UNCHANGED concVars
    /\ op = "pendingGroup"
    /\ Selects(VMGroupBackupAppliesTo, "virtualmachinegroups.vmoperator.vmware.com")
    /\ \E api \in ApiServers(Range(Flatten(bkItem.BootOrder.phases))) :
          /\ bkApi' = api
          /\ bkOut' = VMGroupBackupExecute(bkItem, api)
    /\ op' = "backup"
    /\ UNCHANGED <<bkItem, vmIn, vmAfter, vmOut, vmAgain, pvcIn, pvcOut, pvcAgain,
                   rsPc, created, ready>>

\* the host framework restores the VirtualMachine and calls the restore action
VMRestore ==
    /\ UNCHANGED concVars
    /\ op = "pendingVM"
    /\ Selects(VMRestoreAppliesTo, "virtualmachines.vmoperator.vmware.com")
    /\ LET r == VMRestoreExecute(vmIn)
       IN  /\ vmAfter' = r.after
           /\ vmOut' = r.out
           /\ rsPc' = IF r.out.err THEN "failed" ELSE "executed"
    /\ op' = "vmrestore"
    /\ UNCHANGED <<bkItem, bkApi, bkOut, vmIn, vmAgain, pvcIn, pvcOut, pvcAgain,
                   created, ready>>

\* the same with the typed revision of the action
VMRestoreTyped ==
    /\ UNCHANGED concVars
    /\ op = "pendingVM"
    /\ Selects(VMRestoreAppliesTo, "virtualmachines.vmoperator.vmware.com")
    /\ LET r == VMRestoreExecuteTyped(vmIn)
       IN  /\ vmAfter' = r.after
           /\ vmOut' = r.out
           /\ rsPc' = IF r.out.err THEN "failed" ELSE "executed"
    /\ op' = "vmrestoreTyped"
    /\ UNCHANGED <<bkItem, bkApi, bkOut, vmIn, vmAgain, pvcIn, pvcOut, pvcAgain,
                   created, ready>>

\* a later restore hands the item the action returned to the same action again
VMRestoreAgain ==
    /\ UNCHANGED concVars
    /\ rsPc = "executed"
    /\ vmAgain' = IF op = "vmrestore" THEN VMRestoreExecute(vmOut.item[1]).out
                  ELSE VMRestoreExecuteTyped(vmOut.item[1]).out
    /\ rsPc' = "again"
    /\ UNCHANGED <<op, bkItem, bkApi, bkOut, vmIn, vmAfter, vmOut, pvcIn, pvcOut,
                   pvcAgain, created, ready>>

\* the host framework restores the PersistentVolumeClaim and calls the restore action
PVCRestore ==
    /\ UNCHANGED concVars
    /\ op = "pendingPVC"
    /\ Selects(PVCRestoreAppliesTo, "persistentvolumeclaims")
    /\ pvcOut' = PVCRestoreExecute(pvcIn)
    /\ op' = "pvcrestore"
    /\ UNCHANGED <<bkItem, bkApi, bkOut, vmIn, vmAfter, vmOut, vmAgain, pvcIn, pvcAgain,
                   rsPc, created, ready>>

\* a later restore hands the claim the action returned to the same action again
PVCRestoreAgain ==
    /\ UNCHANGED concVars
    /\ op = "pvcrestore"
    /\ ~pvcOut.err
    /\ pvcAgain' = PVCRestoreExecute(pvcOut.item[1])
    /\ op' = "pvcrestoreAgain"
    /\ UNCHANGED <<bkItem, bkApi, bkOut, vmIn, vmAfter, vmOut, vmAgain, pvcIn, pvcOut,
                   rsPc, created, ready>>

\* the orchestrator restores the additional items the action named
RestoreAdditionalItems ==
    /\ UNCHANGED concVars
    /\ rsPc = "executed"
    /\ created' = created \cup Range(vmOut.additionalItems)
    /\ rsPc' = "additional"
    /\ UNCHANGED <<op, bkItem, bkApi, bkOut, vmIn, vmAfter, vmOut, vmAgain,
                   pvcIn, pvcOut, pvcAgain, ready>>

\* a created object becomes ready in the cluster
BecomeReady ==
    /\ UNCHANGED concVars
    /\ \E id \in created \ ready : ready' = ready \cup {id}
    /\ UNCHANGED <<op, bkItem, bkApi, bkOut, vmIn, vmAfter, vmOut, vmAgain,
                   pvcIn, pvcOut, pvcAgain, rsPc, created>>

\* the orchestrator creates the VirtualMachine itself; with WaitForAdditionalItems
\* it does so only when the additional items are ready
CompleteItem ==
    /\ UNCHANGED concVars
    /\ rsPc = "additional"
    /\ vmOut.wait => Range(vmOut.additionalItems) \subseteq ready
    /\ created' = created \cup {VMIdentifier(vmIn.namespace, vmIn.name)}
    /\ rsPc' = "completed"
    /\ UNCHANGED <<op, bkItem, bkApi, bkOut, vmIn, vmAfter, vmOut, vmAgain,
                   pvcIn, pvcOut, pvcAgain, ready>>

Next ==
    \/ BackupExecute
    \/ VMRestore
    \/ VMRestoreTyped
    \/ VMRestoreAgain
    \/ PVCRestore
    \/ PVCRestoreAgain
    \/ RestoreAdditionalItems
    \/ BecomeReady
    \/ CompleteItem

Spec == Init /\ [][Next]_vars

(***************************************************************************)
(* Concurrent invocations: the orchestrator runs one worker per item, and  *)
(* the workers' Execute calls interleave statement by statement            *)
(***************************************************************************)
seqVars ==
    <<op, bkItem, bkApi, bkOut, vmIn, vmAfter, vmOut, vmAgain, pvcIn, pvcOut, pvcAgain,
      rsPc, created, ready, rq>>

Workers == {1, 2}

\* variant: the modified flag is a field of the action shared by all invocations
ModifiedCell_Shared(w) == 1

\* the storage of `modified`: a local variable, one per invocation
ModifiedCell(w) == w

ConcVMItems ==
    [namespace : {"ns"},
     name : {"vm-1"},
     annotations : {[present |-> FALSE, map |-> {}],
                    [present |-> TRUE, map |-> {<<FirstBootDoneKey, "true">>}]},
     instanceUUID : {[present |-> TRUE, value |-> ""], [present |-> TRUE, value |-> "abc"]},
     groupName : {[kind |-> "absent", value |-> ""], [kind |-> "malformed", value |-> ""],
                  [kind |-> "string", value |-> "g1"]},
     network : {[kind |-> "absent", value |-> EmptyMap], [kind |-> "map", value |-> NetA]},
     statusConfig : {[kind |-> "absent", value |-> EmptyMap],
                     [kind |-> "map", value |-> NetB]}]

ConcPVCItems ==
    [namespace : {"ns"},
     name : {"pvc-1"},
     annotations : {[present |-> FALSE, map |-> {}],
                    [present |-> TRUE, map |-> {<<HealthKey, "accessible">>}]},
     volumeName : {[kind |-> "absent", value |-> ""], [kind |-> "malformed", value |-> ""]},
     status : {[present |-> TRUE]}]

ConcGroupItems ==
    [Namespace : {"ns"},
     Name : {"g1"},
     BootOrder : {[kind |-> "malformed", phases |-> <<>>],
                  [kind |-> "list", phases |-> << <<"vm-1">>, <<"vm-2">> >>]}]

\* the answers of the API server while the workers run
ConcApis ==
    {[n \in MemberNames |-> [ok |-> FALSE, vm |-> NilVM]],
     [n \in MemberNames |->
        IF n = "vm-1"
        THEN [ok |-> TRUE,
              vm |-> [Bootstrap |-> [Bootstrap |-> TRUE, CloudInit |-> TRUE,
                                     RawCloudConfig |-> TRUE, Name |-> "s1"],
                      Volumes |-> << [Name |-> "vol", PersistentVolumeClaim |-> TRUE,
                                      ClaimName |-> "pvc-1"] >>]]
        ELSE [ok |-> FALSE, vm |-> NilVM]]}

NoApi == [n \in MemberNames |-> [ok |-> FALSE, vm |-> NilVM]]

\* what a worker is given: the action to call and the item to call it with
Tasks ==
    {[kind |-> "vm", item |-> i, api |-> NoApi] : i \in ConcVMItems}
    \cup {[kind |-> "pvc", item |-> i, api |-> NoApi] : i \in ConcPVCItems}
    \cup {[kind |-> "backup", item |-> i, api |-> a] : i \in ConcGroupItems, a \in ConcApis}

NoAcc == [additionalItems |-> <<>>, lookups |-> <<>>]

\* wk' with worker w at position pc and its locals replaced; overlapped records that
\* the other worker was inside its own Execute when w took this step
Step(w, pc, obj, injected, rest, acc, out) ==
    wk' = [wk EXCEPT ![w] =
              [task |-> wk[w].task, pc |-> pc, obj |-> obj, injected |-> injected,
               rest |-> rest, acc |-> acc, out |-> out,
               overlapped |-> wk[w].overlapped
                              \/ \E o \in Workers \ {w} : wk[o].pc \notin {"start", "done"}]]

InitConc ==
    /\ op = "concurrent"
    /\ bkItem = NoGroup /\ bkApi = <<>> /\ bkOut = NoOutput
    /\ vmIn = NoVM /\ vmAfter = NoVM /\ vmOut = NoVMOutput /\ vmAgain = NoVMOutput
    /\ pvcIn = NoPVC /\ pvcOut = NoPVCOutput /\ pvcAgain = NoPVCOutput
    /\ rsPc = "idle" /\ created = {} /\ ready = {}
    /\ rq = <<>>
    /\ wk \in [Workers -> {[task |-> t, pc |-> "start", obj |-> t.item, injected |-> FALSE,
                            rest |-> <<>>, acc |-> NoAcc, out |-> NoPVCOutput,
                            overlapped |-> FALSE] : t \in Tasks}]
    /\ cells = [c \in Workers |-> FALSE]

\* VMRestoreItemAction.Execute, statement by statement
VMBegin(w) ==
    /\ wk[w].task.kind = "vm" /\ wk[w].pc = "start"
    /\ cells' = [cells EXCEPT ![ModifiedCell(w)] = FALSE]
    /\ Step(w, "uuid", wk[w].obj, FALSE, <<>>, NoAcc, wk[w].out)
    /\ UNCHANGED seqVars

VMInstanceUUID(w) ==
    /\ wk[w].task.kind = "vm" /\ wk[w].pc = "uuid"
    /\ LET r == removeInstanceUUID(wk[w].obj)
       IN  /\ cells' = [cells EXCEPT ![ModifiedCell(w)] = @ \/ r.modified]
           /\ Step(w, "annotations", r.obj, FALSE, <<>>, NoAcc, wk[w].out)
    /\ UNCHANGED seqVars

VMAnnotations(w) ==
    /\ wk[w].task.kind = "vm" /\ wk[w].pc = "annotations"
    /\ LET r == removeFirstBootDone(wk[w].obj)
       IN  /\ cells' = [cells EXCEPT ![ModifiedCell(w)] = @ \/ r.modified]
           /\ Step(w, "network", r.obj, FALSE, <<>>, NoAcc, wk[w].out)
    /\ UNCHANGED seqVars

VMNetwork(w) ==
    /\ wk[w].task.kind = "vm" /\ wk[w].pc = "network"
    /\ LET r == injectNetworkConfigFromStatus(wk[w].obj)
       IN  /\ cells' = [cells EXCEPT ![ModifiedCell(w)] = @ \/ r.injected]
           /\ Step(w, "convert", r.obj, r.injected, <<>>, NoAcc, wk[w].out)
    /\ UNCHANGED seqVars

VMReturn(w) ==
    /\ wk[w].task.kind = "vm" /\ wk[w].pc = "convert"
    /\ LET obj == wk[w].obj
           hint == OrderingHint(obj.namespace, TypedGroupName(obj))
           out == IF ConversionFails(obj)
                  THEN [err |-> TRUE, item |-> <<>>, additionalItems |-> <<>>,
                        wait |-> FALSE, modified |-> cells[ModifiedCell(w)],
                        injected |-> wk[w].injected]
                  ELSE [err |-> FALSE, item |-> <<obj>>,
                        additionalItems |-> hint.additionalItems, wait |-> hint.wait,
                        modified |-> cells[ModifiedCell(w)],
                        injected |-> wk[w].injected]
       IN  Step(w, "done", obj, wk[w].injected, <<>>, NoAcc, out)
    /\ UNCHANGED <<cells, seqVars>>

\* PVCRestoreItemAction.Execute, statement by statement
PVCConvert(w) ==
    /\ wk[w].task.kind = "pvc" /\ wk[w].pc = "start"
    /\ IF PVCConversionFails(wk[w].task.item)
       THEN Step(w, "done", wk[w].obj, FALSE, <<>>, NoAcc, [err |-> TRUE, item |-> <<>>])
       ELSE Step(w, "delete", wk[w].task.item, FALSE, <<>>, NoAcc, wk[w].out)
    /\ UNCHANGED <<cells, seqVars>>

PVCDelete(w) ==
    /\ wk[w].task.kind = "pvc" /\ wk[w].pc = "delete"
    /\ Step(w, "back", removeVolumeHealth(wk[w].obj), FALSE, <<>>, NoAcc, wk[w].out)
    /\ UNCHANGED <<cells, seqVars>>

PVCReturn(w) ==
    /\ wk[w].task.kind = "pvc" /\ wk[w].pc = "back"
    /\ Step(w, "done", wk[w].obj, FALSE, <<>>, NoAcc,
            [err |-> FALSE, item |-> <<PVCToUnstructured(wk[w].obj)>>])
    /\ UNCHANGED <<cells, seqVars>>

\* VMGroupBackupItemAction.Execute, one member per step
BackupConvert(w) ==
    /\ wk[w].task.kind = "backup" /\ wk[w].pc = "start"
    /\ LET item == wk[w].task.item
       IN  IF item.BootOrder.kind = "malformed"
           THEN Step(w, "done", item, FALSE, <<>>, NoAcc,
                     [item |-> <<>>, additionalItems |-> <<>>, err |-> TRUE,
                      lookups |-> <<>>])
           ELSE IF item.BootOrder.kind = "absent"
           THEN Step(w, "done", item, FALSE, <<>>, NoAcc,
                     [item |-> <<item>>, additionalItems |-> <<>>, err |-> FALSE,
                      lookups |-> <<>>])
           ELSE Step(w, "loop", item, FALSE, Flatten(item.BootOrder.phases), NoAcc,
                     wk[w].out)
    /\ UNCHANGED <<cells, seqVars>>

BackupMember(w) ==
    /\ wk[w].task.kind = "backup" /\ wk[w].pc = "loop"
    /\ wk[w].rest # <<>>
    /\ Step(w, "loop", wk[w].obj, FALSE, Tail(wk[w].rest),
            ProcessMember(wk[w].acc, wk[w].task.api, wk[w].task.item.Namespace,
                          Head(wk[w].rest)),
            wk[w].out)
    /\ UNCHANGED <<cells, seqVars>>

BackupReturn(w) ==
    /\ wk[w].task.kind = "backup" /\ wk[w].pc = "loop"
    /\ wk[w].rest = <<>>
    /\ Step(w, "done", wk[w].obj, FALSE, <<>>, wk[w].acc,
            [item |-> <<wk[w].obj>>, additionalItems |-> wk[w].acc.additionalItems,
             err |-> FALSE, lookups |-> wk[w].acc.lookups])
    /\ UNCHANGED <<cells, seqVars>>

NextConc ==
    \E w \in Workers :
        \/ VMBegin(w)
        \/ VMInstanceUUID(w)
        \/ VMAnnotations(w)
        \/ VMNetwork(w)
        \/ VMReturn(w)
        \/ PVCConvert(w)
        \/ PVCDelete(w)
        \/ PVCReturn(w)
        \/ BackupConvert(w)
        \/ BackupMember(w)
        \/ BackupReturn(w)

SpecConc == InitConc /\ [][NextConc]_vars

(***************************************************************************)
(* Restore of a whole backup: the orchestrator calls, for every item of    *)
(* the backup, the registered restore actions whose selector includes the  *)
(* item's resource, and honours the returned hints                         *)
(***************************************************************************)
NotInBackup == [kind |-> "none", value |-> ""]

\* spec.groupName of the VirtualMachines of a backup
RestoreGroupNameFields ==
    {[kind |-> "absent", value |-> ""], [kind |-> "malformed", value |-> ""]}
    \cup {[kind |-> "string", value |-> g] : g \in GroupNames}

\* the items of a backup by identifier: the VirtualMachines sel names, the groups
\* and the claims
BackupOf(sel, groups, pvcs) ==
    LET ids == {VMIdentifier("ns", n) : n \in {x \in MemberNames : sel[x] # NotInBackup}}
               \cup {VMGroupIdentifier("ns", g) : g \in groups}
               \cup {PVCIdentifier("ns", c) : c \in pvcs}
    IN  [id \in ids |->
            IF id.Resource = "virtualmachines"
            THEN [NoVM EXCEPT !.name = id.Name,
                              !.instanceUUID = [present |-> TRUE, value |-> "abc"],
                              !.groupName = sel[id.Name]]
            ELSE IF id.Resource = "persistentvolumeclaims"
            THEN [NoPVC EXCEPT !.name = id.Name,
                               !.annotations = [present |-> TRUE,
                                                map |-> {<<HealthKey, "accessible">>}]]
            ELSE [NoGroup EXCEPT !.Name = id.Name]]

\* the resource name selectors are written with
SelectorResource(id) ==
    IF id.Group = "" THEN id.Resource ELSE id.Resource \o "." \o id.Group

\* the selector of a registered action
SelectorOf(name) ==
    IF name = "lubronzhan.io/vm-restore" THEN VMRestoreAppliesTo
    ELSE IF name = "lubronzhan.io/pvc-restore" THEN PVCRestoreAppliesTo
    ELSE VMGroupBackupAppliesTo

\* error, additional items and wait flag the registered restore actions return for
\* an item; an item no registered restore action selects gets no hint
RestoreOutput(id, item) ==
    LET names == {a.name : a \in {r \in RegisteredActions :
                                     /\ r.kind = "RestoreItemAction"
                                     /\ Selects(SelectorOf(r.name), SelectorResource(id))}}
    IN  IF "lubronzhan.io/vm-restore" \in names
        THEN LET out == VMRestoreExecute(item).out
             IN  [err |-> out.err, additionalItems |-> out.additionalItems,
                  wait |-> out.wait]
        ELSE IF "lubronzhan.io/pvc-restore" \in names
        THEN [err |-> PVCRestoreExecute(item).err, additionalItems |-> <<>>,
              wait |-> FALSE]
        ELSE [err |-> FALSE, additionalItems |-> <<>>, wait |-> FALSE]

InitRestore ==
    /\ op = "restoreBackup"
    /\ bkItem = NoGroup /\ bkApi = <<>> /\ bkOut = NoOutput
    /\ vmIn = NoVM /\ vmAfter = NoVM /\ vmOut = NoVMOutput /\ vmAgain = NoVMOutput
    /\ pvcIn = NoPVC /\ pvcOut = NoPVCOutput /\ pvcAgain = NoPVCOutput
    /\ rsPc = "idle" /\ created = {} /\ ready = {}
    /\ wk = <<>> /\ cells = <<>>
    /\ \E sel \in [MemberNames -> RestoreGroupNameFields \cup {NotInBackup}],
          groups \in SUBSET GroupNames, pvcs \in SUBSET ClaimNames :
          LET items == BackupOf(sel, groups, pvcs)
          IN  rq = [items |-> items,
                    pos |-> [id \in DOMAIN items |-> "pending"],
                    hints |-> [id \in DOMAIN items |-> {}],
                    wait |-> [id \in DOMAIN items |-> FALSE]]

\* the orchestrator takes an item of the backup and calls the restore actions
ExecuteActions(id) ==
    /\ rq.pos[id] = "pending"
    /\ LET out == RestoreOutput(id, rq.items[id])
       IN  rq' = [rq EXCEPT !.pos[id] = IF out.err THEN "failed" ELSE "executed",
                            !.hints[id] = Range(out.additionalItems),
                            !.wait[id] = out.wait]
    /\ UNCHANGED <<op, bkItem, bkApi, bkOut, vmIn, vmAfter, vmOut, vmAgain, pvcIn, pvcOut,
                   pvcAgain, rsPc, created, ready, wk, cells>>

\* the orchestrator creates the item; with WaitForAdditionalItems only when the
\* additional items that are in the backup are ready
CreateItem(id) ==
    /\ rq.pos[id] = "executed"
    /\ rq.wait[id] => (rq.hints[id] \cap DOMAIN rq.items) \subseteq ready
    /\ created' = created \cup {id}
    /\ rq' = [rq EXCEPT !.pos[id] = "created"]
    /\ UNCHANGED <<op, bkItem, bkApi, bkOut, vmIn, vmAfter, vmOut, vmAgain, pvcIn, pvcOut,
                   pvcAgain, rsPc, ready, wk, cells>>

NextRestore ==
    \/ \E id \in DOMAIN rq.items : ExecuteActions(id)
    \/ \E id \in DOMAIN rq.items : CreateItem(id)
    \/ BecomeReady

SpecRestore == InitRestore /\ [][NextRestore]_vars /\ WF_vars(NextRestore)

(***************************************************************************)
(* Properties of VMGroupBackupItemAction.Execute                           *)
(***************************************************************************)
BackupDone == op = "backup"

\* the member names of the item, in iteration order (empty without a boot-order list)
Members == IF bkItem.BootOrder.kind = "list" THEN Flatten(bkItem.BootOrder.phases) ELSE <<>>

\* the member descriptor names a bootstrap secret
HasSecret(vm) ==
    /\ vm.Bootstrap.Bootstrap /\ vm.Bootstrap.CloudInit /\ vm.Bootstrap.RawCloudConfig
    /\ vm.Bootstrap.Name # ""

\* the claim names bound by the volumes of a member descriptor
BoundClaims(vm) ==
    {vm.Volumes[k].ClaimName : k \in {j \in DOMAIN vm.Volumes :
        vm.Volumes[j].PersistentVolumeClaim /\ vm.Volumes[j].ClaimName # ""}}

\* C1: every member name of any boot phase has its VirtualMachine identifier
\* (virtualmachines, vmoperator.vmware.com, the group's namespace, the name) in the
\* result, whether its lookup succeeded or failed.
C1_MemberAlwaysEmitted ==
    (BackupDone /\ bkItem.BootOrder.kind = "list") =>
        LET members == Members
            itemSet == Range(bkOut.additionalItems)
        IN  /\ ~bkOut.err
            /\ \A i \in DOMAIN members :
                  [Group |-> "vmoperator.vmware.com", Resource |-> "virtualmachines",
                   Namespace |-> bkItem.Namespace, Name |-> members[i]] \in itemSet

C1_Witness ==
    /\ BackupDone
    /\ \E i, j \in DOMAIN Members :
          /\ ~bkApi[Members[i]].ok /\ bkApi[Members[j]].ok
          /\ VMIdentifier(bkItem.Namespace, Members[i]) \in Range(bkOut.additionalItems)
          /\ VMIdentifier(bkItem.Namespace, Members[j]) \in Range(bkOut.additionalItems)

\* C2: a failed lookup neither aborts extraction nor raises an error: every member
\* occurrence is looked up, in order, in the group's namespace, and every fetched
\* member's Secret and PersistentVolumeClaim identifiers are in the result, also
\* for members that come after a failed one.
C2_FailureDoesNotAbort ==
    (BackupDone /\ bkItem.BootOrder.kind = "list") =>
        LET members == Members
            itemSet == Range(bkOut.additionalItems)
            lookups == bkOut.lookups
        IN  /\ ~bkOut.err
            /\ bkOut.item = <<bkItem>>
            /\ Len(lookups) = Len(members)
            /\ \A j \in DOMAIN members :
                  /\ lookups[j].Name = members[j]
                  /\ lookups[j].Namespace = bkItem.Namespace
                  /\ lookups[j].ok = bkApi[members[j]].ok
                  /\ lookups[j].ok =>
                        /\ HasSecret(lookups[j].vm) =>
                              SecretIdentifier(bkItem.Namespace, lookups[j].vm.Bootstrap.Name)
                                  \in itemSet
                        /\ \A c \in BoundClaims(lookups[j].vm) :
                              PVCIdentifier(bkItem.Namespace, c) \in itemSet

C2_Witness ==
    /\ BackupDone /\ ~bkOut.err
    /\ \E i, j \in DOMAIN bkOut.lookups :
          /\ i < j
          /\ ~bkOut.lookups[i].ok
          /\ bkOut.lookups[j].ok
          /\ HasSecret(bkOut.lookups[j].vm)
          /\ BoundClaims(bkOut.lookups[j].vm) # {}
          /\ SecretIdentifier(bkItem.Namespace, bkOut.lookups[j].vm.Bootstrap.Name)
                \in Range(bkOut.additionalItems)

\* C3 as stated: the result list holds no identifier twice.
C3_NoDuplicates ==
    BackupDone =>
        \A i, j \in DOMAIN bkOut.additionalItems :
            i # j => bkOut.additionalItems[i] # bkOut.additionalItems[j]

\* how often the fetched members name secret s / bind claim c
RECURSIVE SecretRefs(_, _)
SecretRefs(lookups, s) ==
    IF lookups = <<>> THEN 0
    ELSE (IF Head(lookups).ok /\ HasSecret(Head(lookups).vm)
             /\ Head(lookups).vm.Bootstrap.Name = s THEN 1 ELSE 0)
         + SecretRefs(Tail(lookups), s)

RECURSIVE ClaimRefs(_, _)
ClaimRefs(lookups, c) ==
    IF lookups = <<>> THEN 0
    ELSE (IF Head(lookups).ok
          THEN Cardinality({k \in DOMAIN Head(lookups).vm.Volumes :
                   /\ Head(lookups).vm.Volumes[k].PersistentVolumeClaim
                   /\ Head(lookups).vm.Volumes[k].ClaimName = c})
          ELSE 0)
         + ClaimRefs(Tail(lookups), c)

\* C3 (amended): the result is a list that is not deduplicated: it holds the
\* VirtualMachine identifier of a name once per occurrence of the name in the boot
\* phases, a Secret identifier once per fetched member occurrence naming it and a
\* PersistentVolumeClaim identifier once per claim-bound volume of a fetched member
\* occurrence; only read as a set do equal identifiers collapse to one.
C3_OnePerOccurrence ==
    BackupDone =>
        LET members == Members
            items == bkOut.additionalItems
        IN  /\ \A m \in MemberNames :
                  Count(items, VMIdentifier(bkItem.Namespace, m)) = Count(members, m)
            /\ \A s \in SecretNames :
                  Count(items, SecretIdentifier(bkItem.Namespace, s))
                      = SecretRefs(bkOut.lookups, s)
            /\ \A c \in ClaimNames :
                  Count(items, PVCIdentifier(bkItem.Namespace, c))
                      = ClaimRefs(bkOut.lookups, c)

C3_Witness ==
    /\ BackupDone
    /\ Len(bkItem.BootOrder.phases) > 1
    /\ \E m \in MemberNames :
          /\ \E p, q \in DOMAIN bkItem.BootOrder.phases :
                /\ p # q
                /\ m \in Range(bkItem.BootOrder.phases[p])
                /\ m \in Range(bkItem.BootOrder.phases[q])
          /\ Count(bkOut.additionalItems, VMIdentifier(bkItem.Namespace, m)) > 1
          /\ HasSecret(bkApi[m].vm) /\ bkApi[m].ok
          /\ Count(bkOut.additionalItems,
                   SecretIdentifier(bkItem.Namespace, bkApi[m].vm.Bootstrap.Name)) > 1

\* the group of end-to-end scenario 1 and the members it finds
Scenario1 ==
    /\ BackupDone
    /\ bkItem.Namespace = "ns" /\ bkItem.Name = "g1"
    /\ bkItem.BootOrder = [kind |-> "list", phases |-> << <<"vm-1", "vm-2">> >>]
    /\ bkApi["vm-1"].ok /\ bkApi["vm-2"].ok
    /\ HasSecret(bkApi["vm-1"].vm) /\ bkApi["vm-1"].vm.Bootstrap.Name = "s1"
    /\ Len(bkApi["vm-1"].vm.Volumes) = 1
    /\ BoundClaims(bkApi["vm-1"].vm) = {"pvc-1"}
    /\ ~HasSecret(bkApi["vm-2"].vm)
    /\ BoundClaims(bkApi["vm-2"].vm) = {}

\* C6: scenario 1 yields exactly {VM ns/vm-1, VM ns/vm-2, Secret ns/s1, PVC ns/pvc-1};
\* in general, when every lookup succeeds, the result set is the member VM
\* identifiers, the Secret identifier of each member naming a bootstrap secret and
\* the PVC identifier of each claim-bound volume, in the group's namespace, and
\* nothing else.
C6_ExactResultSet ==
    BackupDone =>
        LET members == Members
            itemSet == Range(bkOut.additionalItems)
            named == Range(members)
        IN  /\ Scenario1 =>
                  itemSet = {VMIdentifier("ns", "vm-1"), VMIdentifier("ns", "vm-2"),
                             SecretIdentifier("ns", "s1"), PVCIdentifier("ns", "pvc-1")}
            /\ (~bkOut.err /\ \A m \in named : bkApi[m].ok) =>
                  itemSet =
                      {VMIdentifier(bkItem.Namespace, m) : m \in named}
                      \cup {SecretIdentifier(bkItem.Namespace, bkApi[m].vm.Bootstrap.Name) :
                               m \in {n \in named : HasSecret(bkApi[n].vm)}}
                      \cup UNION {{PVCIdentifier(bkItem.Namespace, c) :
                                      c \in BoundClaims(bkApi[m].vm)} : m \in named}

C6_Witness ==
    /\ Scenario1
    /\ Cardinality(Range(bkOut.additionalItems)) = 4
    /\ ~bkOut.err

\* C7: a group without boot phases, or whose phases hold no member, yields an empty
\* result, no error and no external lookup.
C7_EmptyGroup ==
    (BackupDone /\ bkItem.BootOrder.kind # "malformed" /\ Members = <<>>) =>
        /\ bkOut.additionalItems = <<>>
        /\ ~bkOut.err
        /\ bkOut.item = <<bkItem>>
        /\ bkOut.lookups = <<>>

C7_Witness ==
    /\ BackupDone
    /\ bkItem.BootOrder.kind = "list"
    /\ Len(bkItem.BootOrder.phases) = MaxPhases
    /\ Members = <<>>
    /\ bkOut.additionalItems = <<>> /\ ~bkOut.err

\* C8: a Secret identifier is in the result exactly when some member was fetched
\* and names a non-empty bootstrap secret; a member without bootstrap, cloudInit or
\* rawCloudConfig, or with an empty name, contributes none.
C8_SecretIffDeclared ==
    BackupDone =>
        LET itemSet == Range(bkOut.additionalItems)
            lookups == bkOut.lookups
        IN  /\ \A s \in SecretNames \cup {""} :
                  SecretIdentifier(bkItem.Namespace, s) \in itemSet
                      <=> \E j \in DOMAIN lookups :
                             /\ lookups[j].ok
                             /\ lookups[j].vm.Bootstrap.Bootstrap
                             /\ lookups[j].vm.Bootstrap.CloudInit
                             /\ lookups[j].vm.Bootstrap.RawCloudConfig
                             /\ lookups[j].vm.Bootstrap.Name = s
                             /\ s # ""
            /\ \A x \in itemSet :
                  x.Resource = "secrets" =>
                      /\ x.Group = "" /\ x.Namespace = bkItem.Namespace
                      /\ x.Name \in SecretNames

C8_Witness ==
    /\ BackupDone
    /\ Len(bkOut.lookups) > 1
    /\ bkOut.lookups[1].ok /\ bkOut.lookups[1].vm.Bootstrap.RawCloudConfig
    /\ bkOut.lookups[1].vm.Bootstrap.Name = ""
    /\ bkOut.lookups[Len(bkOut.lookups)].ok
    /\ bkOut.lookups[Len(bkOut.lookups)].vm.Bootstrap.Name = "s1"
    /\ Count(bkOut.additionalItems, SecretIdentifier(bkItem.Namespace, "s1")) = 1
    /\ \A x \in Range(bkOut.additionalItems) : x.Resource = "secrets" => x.Name = "s1"

\* C9: a PersistentVolumeClaim identifier is in the result exactly for the claim
\* names bound by volumes of fetched members; a volume without claim binding or
\* with an empty claim name, and a member without volumes, contribute none.
C9_PVCIffBound ==
    BackupDone =>
        LET itemSet == Range(bkOut.additionalItems)
            lookups == bkOut.lookups
        IN  /\ \A c \in ClaimNames \cup {""} :
                  PVCIdentifier(bkItem.Namespace, c) \in itemSet
                      <=> \E j \in DOMAIN lookups :
                             /\ lookups[j].ok
                             /\ \E k \in DOMAIN lookups[j].vm.Volumes :
                                   /\ lookups[j].vm.Volumes[k].PersistentVolumeClaim
                                   /\ lookups[j].vm.Volumes[k].ClaimName = c
                                   /\ c # ""
            /\ \A x \in itemSet :
                  x.Resource = "persistentvolumeclaims" =>
                      /\ x.Group = "" /\ x.Namespace = bkItem.Namespace
                      /\ x.Name \in ClaimNames

C9_Witness ==
    /\ BackupDone
    /\ Len(bkOut.lookups) > 1
    /\ bkOut.lookups[1].ok /\ Len(bkOut.lookups[1].vm.Volumes) > 0
    /\ ~bkOut.lookups[1].vm.Volumes[1].PersistentVolumeClaim
    /\ bkOut.lookups[Len(bkOut.lookups)].ok
    /\ Len(bkOut.lookups[Len(bkOut.lookups)].vm.Volumes) > 0
    /\ bkOut.lookups[Len(bkOut.lookups)].vm.Volumes[1].ClaimName = "pvc-1"
    /\ Count(bkOut.additionalItems, PVCIdentifier(bkItem.Namespace, "pvc-1")) = 1

(***************************************************************************)
(* Properties of VMRestoreItemAction.Execute and of the restore order      *)
(***************************************************************************)
VMRestoreDone == op = "vmrestore" \/ op = "vmrestoreTyped"

\* the VirtualMachine names a group in spec.groupName
NamesGroup(item) == item.groupName.kind = "string" /\ item.groupName.value # ""

C5_OrderingHint ==
    VMRestoreDone =>
        /\ ~ConversionFails(vmAfter) => ~vmOut.err
        /\ (~vmOut.err /\ NamesGroup(vmIn)) =>
              /\ vmOut.additionalItems =
                    << [Group |-> "vmoperator.vmware.com",
                        Resource |-> "virtualmachinegroups",
                        Namespace |-> vmIn.namespace,
                        Name |-> vmIn.groupName.value] >>
              /\ vmOut.wait = TRUE
        /\ (~vmOut.err /\ ~NamesGroup(vmIn)) =>
              /\ vmOut.additionalItems = <<>>
              /\ vmOut.wait = FALSE

C5_Witness ==
    /\ op = "vmrestore"
    /\ rsPc = "executed"
    /\ vmIn.namespace = "other"
    /\ vmIn.groupName = [kind |-> "string", value |-> "g1"]
    /\ vmOut.modified /\ vmOut.injected
    /\ vmOut.additionalItems = <<VMGroupIdentifier("other", "g1")>>
    /\ vmOut.wait

\* spec.network is a section that is present and not empty
HasNetwork(item) == item.network.kind = "map" /\ item.network.value # EmptyMap

\* C10: a non-empty, pre-existing spec.network is left identical by sanitization,
\* whatever status.network.config holds, and the network step reports no change.
C10_NetworkPreserved ==
    (op = "vmrestore" /\ HasNetwork(vmIn)) =>
        /\ vmAfter.network = vmIn.network
        /\ ~vmOut.injected
        /\ ~vmOut.err => vmOut.item[1].network = vmIn.network

C10_Witness ==
    /\ op = "vmrestore"
    /\ vmIn.network = [kind |-> "map", value |-> NetA]
    /\ vmIn.statusConfig = [kind |-> "map", value |-> NetB]
    /\ ~vmOut.err
    /\ vmOut.item[1].network.value = NetA
    /\ ~vmOut.injected

(***************************************************************************)
(* Properties of the sanitization done by the restore actions              *)
(***************************************************************************)
\* spec.network is absent, or present as an empty section
NetworkAbsentOrEmpty(item) ==
    \/ item.network.kind = "absent"
    \/ item.network.kind = "map" /\ item.network.value = EmptyMap

\* C11: sanitizing a VirtualMachine whose spec.network is absent or empty and whose
\* status.network.config exists sets spec.network to exactly the prior
\* status.network.config and reports a change.
C11_NetworkInjected ==
    (op = "vmrestore" /\ NetworkAbsentOrEmpty(vmIn) /\ vmIn.statusConfig.kind = "map") =>
        /\ vmAfter.network = [kind |-> "map", value |-> vmIn.statusConfig.value]
        /\ vmOut.injected
        /\ vmOut.modified

\* the item carries the first-boot-done annotation
HasFirstBootDone(item) ==
    item.annotations.present /\ \E kv \in item.annotations.map : kv[1] = FirstBootDoneKey

\* C12: a successful sanitization of a VirtualMachine with non-empty
\* spec.instanceUUID returns it with an empty spec.instanceUUID and reports a change;
\* an empty or absent spec.instanceUUID stays empty, is left as it is in the
\* unstructured content, and a change is reported only if another step made one.
C12_InstanceUUIDCleared ==
    (VMRestoreDone /\ ~vmOut.err) =>
        /\ vmIn.instanceUUID.value # "" =>
              /\ vmOut.item[1].instanceUUID.value = ""
              /\ vmOut.modified
        /\ vmIn.instanceUUID.value = "" =>
              /\ vmOut.item[1].instanceUUID.value = ""
              /\ op = "vmrestore" => vmOut.item[1].instanceUUID = vmIn.instanceUUID
              /\ vmOut.modified => (HasFirstBootDone(vmIn) \/ vmOut.injected)

C12_Witness ==
    /\ op = "vmrestore"
    /\ vmIn.instanceUUID = [present |-> TRUE, value |-> "abc"]
    /\ ~HasFirstBootDone(vmIn)
    /\ ~vmOut.err /\ ~vmOut.injected
    /\ vmOut.item[1].instanceUUID.value = ""
    /\ vmOut.modified

\* C13: a successful sanitization of a VirtualMachine carrying the first-boot-done
\* annotation removes exactly that key and reports a change; every other annotation
\* key is in the output with the value it had in the input.
C13_FirstBootDoneRemoved ==
    (VMRestoreDone /\ ~vmOut.err /\ HasFirstBootDone(vmIn)) =>
        /\ vmOut.modified
        /\ vmOut.item[1].annotations.map =
              {kv \in vmIn.annotations.map : kv[1] # FirstBootDoneKey}
        /\ \A kv \in vmIn.annotations.map :
              kv[1] # FirstBootDoneKey => kv \in vmOut.item[1].annotations.map

C13_Witness ==
    /\ VMRestoreDone
    /\ vmIn.annotations.map = {<<FirstBootDoneKey, "true">>, <<OtherKey, "x">>}
    /\ vmIn.instanceUUID.value = ""
    /\ ~vmOut.err /\ ~vmOut.injected
    /\ vmOut.item[1].annotations = [present |-> TRUE, map |-> {<<OtherKey, "x">>}]
    /\ vmOut.modified

\* C14: sanitization is idempotent: Execute called on the item a first successful
\* Execute returned succeeds, reports no change and returns an item equal to the one
\* it was given, for VirtualMachine items (either revision) and for
\* PersistentVolumeClaim items (whose action has no change flag: equal output).
C14_Idempotent ==
    /\ rsPc = "again" =>
          /\ ~vmAgain.err
          /\ ~vmAgain.modified /\ ~vmAgain.injected
          /\ vmAgain.item = vmOut.item
    /\ op = "pvcrestoreAgain" =>
          /\ ~pvcAgain.err
          /\ pvcAgain.item = pvcOut.item

C14_Witness ==
    /\ rsPc = "again"
    /\ op = "vmrestore"
    /\ vmIn.instanceUUID.value = "abc"
    /\ HasFirstBootDone(vmIn)
    /\ vmOut.injected /\ vmOut.modified
    /\ vmOut.item[1] # vmIn
    /\ vmAgain.item = vmOut.item
    /\ ~vmAgain.modified

\* C15: a successful VirtualMachine sanitization reports a change exactly when the
\* returned item differs from the item it was given, and without a change the
\* returned item is the input item as it was, not a converted copy.
C15_ChangedIffDiffers ==
    (VMRestoreDone /\ ~vmOut.err) =>
        /\ vmOut.modified <=> vmOut.item[1] # vmIn
        /\ ~vmOut.modified =>
              /\ vmOut.item[1] = vmIn
              /\ vmAfter = vmIn

C15_Witness ==
    /\ op = "vmrestoreTyped"
    /\ vmIn.annotations = [present |-> TRUE, map |-> {}]
    /\ vmIn.instanceUUID = [present |-> TRUE, value |-> ""]
    /\ ~vmOut.err
    /\ ~vmOut.modified
    /\ vmOut.item[1] = vmIn
    /\ ToUnstructured(vmIn) # vmIn

PVCRestoreDone == op = "pvcrestore" \/ op = "pvcrestoreAgain"

\* the claim carries the volume health annotation
HasVolumeHealth(item) ==
    item.annotations.present /\ \E kv \in item.annotations.map : kv[1] = HealthKey

\* C16: a successful sanitization of a PersistentVolumeClaim carrying the volume
\* health annotation returns it without that annotation, which is a change; a claim
\* without the annotation is returned as it was given, unchanged.
C16_VolumeHealthRemoved ==
    (PVCRestoreDone /\ ~pvcOut.err) =>
        /\ HasVolumeHealth(pvcIn) =>
              /\ ~HasVolumeHealth(pvcOut.item[1])
              /\ pvcOut.item[1] # pvcIn
        /\ ~HasVolumeHealth(pvcIn) => pvcOut.item[1] = pvcIn

\* C17: an item that cannot be converted to the type the action expects
\* (VirtualMachineGroup, VirtualMachine, PersistentVolumeClaim) makes Execute return
\* an error with no item, no additional items and no wait flag.
C17_MalformedIsError ==
    /\ (BackupDone /\ bkItem.BootOrder.kind = "malformed") =>
          /\ bkOut.err
          /\ bkOut.item = <<>> /\ bkOut.additionalItems = <<>>
    /\ (VMRestoreDone /\ ConversionFails(vmIn)) =>
          /\ vmOut.err
          /\ vmOut.item = <<>> /\ vmOut.additionalItems = <<>> /\ ~vmOut.wait
    /\ (PVCRestoreDone /\ PVCConversionFails(pvcIn)) =>
          /\ pvcOut.err
          /\ pvcOut.item = <<>>

\* C18: a VirtualMachine without spec.network and without status.network.config is
\* sanitized without error: spec.network stays absent in the input item and in the
\* returned item, and the network step reports no change.
C18_NoStatusNoInjection ==
    (VMRestoreDone /\ vmIn.network.kind = "absent" /\ vmIn.statusConfig.kind = "absent"
       /\ vmIn.groupName.kind # "malformed") =>
        /\ ~vmOut.err
        /\ ~vmOut.injected
        /\ vmAfter.network.kind = "absent"
        /\ vmOut.item[1].network.kind = "absent"

C18_Witness ==
    /\ op = "vmrestore"
    /\ vmIn.network.kind = "absent" /\ vmIn.statusConfig.kind = "absent"
    /\ vmIn.instanceUUID.value = "abc"
    /\ ~vmOut.err /\ vmOut.modified /\ ~vmOut.injected
    /\ vmOut.item[1].network = [kind |-> "absent", value |-> EmptyMap]

\* C19: backup extraction does not change its input: on every path without error the
\* item Execute returns is the VirtualMachineGroup item it was given, every field as
\* before the call, also when members were fetched and identifiers emitted.
C19_BackupItemUnchanged ==
    (BackupDone /\ ~bkOut.err) => bkOut.item = <<bkItem>>

C19_Witness ==
    /\ BackupDone
    /\ ~bkOut.err
    /\ Len(bkOut.lookups) = MaxMembers
    /\ bkOut.lookups[1].ok /\ ~bkOut.lookups[MaxMembers].ok
    /\ Len(bkOut.additionalItems) > MaxMembers
    /\ bkOut.item[1].BootOrder = bkItem.BootOrder
    /\ bkOut.item[1].BootOrder.kind = "list"

(***************************************************************************)
(* Properties of the plugin process                                        *)
(***************************************************************************)
\* C20: the plugin process registers three actions with the host framework: the
\* BackupItemAction lubronzhan.io/vmgroup-backup and the RestoreItemActions
\* lubronzhan.io/vm-restore and lubronzhan.io/pvc-restore, so a backup of a
\* VirtualMachineGroup is handed to the backup action.
C20_ThreeActionsRegistered ==
    /\ RegisteredActions =
          {[name |-> "lubronzhan.io/vmgroup-backup", kind |-> "BackupItemAction"],
           [name |-> "lubronzhan.io/vm-restore", kind |-> "RestoreItemAction"],
           [name |-> "lubronzhan.io/pvc-restore", kind |-> "RestoreItemAction"]}
    /\ op = "pendingGroup" =>
          \E a \in RegisteredActions : a.kind = "BackupItemAction"

(***************************************************************************)
(* Properties of the errors, the selectors and the invocations             *)
(***************************************************************************)
\* C21: every error an operation returns to the host framework identifies the object
\* it concerns: it carries the object's kind and its namespace and name.
C21_ErrorNamesObject ==
    /\ (BackupDone /\ bkOut.err) =>
          /\ VMGroupBackupError(bkOut).kind = "VirtualMachineGroup"
          /\ VMGroupBackupError(bkOut).namespace = bkItem.Namespace
          /\ VMGroupBackupError(bkOut).name = bkItem.Name
    /\ (VMRestoreDone /\ vmOut.err) =>
          /\ VMRestoreError(vmOut).kind = "VirtualMachine"
          /\ VMRestoreError(vmOut).namespace = vmIn.namespace
          /\ VMRestoreError(vmOut).name = vmIn.name
    /\ (PVCRestoreDone /\ pvcOut.err) =>
          /\ PVCRestoreError(pvcOut).kind = "PersistentVolumeClaim"
          /\ PVCRestoreError(pvcOut).namespace = pvcIn.namespace
          /\ PVCRestoreError(pvcOut).name = pvcIn.name

\* C22: during the backup of a VirtualMachineGroup the backup action adds the
\* tracking label vmgroup.vmoperator.vmware.com/name, with the group's name, to each
\* member VirtualMachine it has fetched.
C22_TrackingLabelAdded ==
    (BackupDone /\ ~bkOut.err) =>
        \A j \in DOMAIN bkOut.lookups :
            bkOut.lookups[j].ok =>
                <<bkOut.lookups[j].Name, "vmgroup.vmoperator.vmware.com/name", bkItem.Name>>
                    \in MemberUpdates(bkItem, bkApi)

Resources ==
    {"virtualmachinegroups.vmoperator.vmware.com", "virtualmachines.vmoperator.vmware.com",
     "persistentvolumeclaims", "secrets"}

\* C23: each action's selector returns without error and includes exactly the one
\* resource the action works on: virtualmachinegroups.vmoperator.vmware.com for the
\* backup action, virtualmachines.vmoperator.vmware.com for the VirtualMachine restore
\* action, persistentvolumeclaims for the PersistentVolumeClaim restore action; no
\* action is handed a resource of another kind.
C23_ExactSelectors ==
    /\ ~VMGroupBackupAppliesTo.err /\ ~VMRestoreAppliesTo.err /\ ~PVCRestoreAppliesTo.err
    /\ \A r \in Resources :
          /\ Selects(VMGroupBackupAppliesTo, r)
                <=> r = "virtualmachinegroups.vmoperator.vmware.com"
          /\ Selects(VMRestoreAppliesTo, r) <=> r = "virtualmachines.vmoperator.vmware.com"
          /\ Selects(PVCRestoreAppliesTo, r) <=> r = "persistentvolumeclaims"
    /\ BackupDone => vmIn = NoVM /\ pvcIn = NoPVC
    /\ VMRestoreDone => bkItem = NoGroup /\ pvcIn = NoPVC /\ bkOut = NoOutput
    /\ PVCRestoreDone => bkItem = NoGroup /\ vmIn = NoVM /\ vmOut = NoVMOutput

C23_Witness ==
    /\ op = "pvcrestore"
    /\ pvcIn # NoPVC
    /\ ~pvcOut.err
    /\ Selects(PVCRestoreAppliesTo, "persistentvolumeclaims")
    /\ ~Selects(VMRestoreAppliesTo, "persistentvolumeclaims")
    /\ ~Selects(VMGroupBackupAppliesTo, "persistentvolumeclaims")
    /\ vmOut = NoVMOutput

(***************************************************************************)
(* Frame properties of the sanitization                                    *)
(***************************************************************************)
\* the field paths present in a VirtualMachine item
VMPaths(obj) ==
    {<<"metadata", "namespace">>, <<"metadata", "name">>}
    \cup (IF obj.annotations.present THEN {<<"metadata", "annotations">>} ELSE {})
    \cup (IF obj.annotations.present
          THEN {<<"metadata", "annotations", kv[1]>> : kv \in obj.annotations.map} ELSE {})
    \cup (IF obj.instanceUUID.present THEN {<<"spec", "instanceUUID">>} ELSE {})
    \cup (IF obj.groupName.kind # "absent" THEN {<<"spec", "groupName">>} ELSE {})
    \cup (IF obj.network.kind # "absent" THEN {<<"spec", "network">>} ELSE {})
    \cup (IF obj.statusConfig.kind # "absent" THEN {<<"status", "network", "config">>} ELSE {})

\* the field paths present in a PersistentVolumeClaim item
PVCPaths(obj) ==
    {<<"metadata", "namespace">>, <<"metadata", "name">>}
    \cup (IF obj.annotations.present THEN {<<"metadata", "annotations">>} ELSE {})
    \cup (IF obj.annotations.present
          THEN {<<"metadata", "annotations", kv[1]>> : kv \in obj.annotations.map} ELSE {})
    \cup (IF obj.volumeName.kind # "absent" THEN {<<"spec", "volumeName">>} ELSE {})
    \cup (IF obj.status.present THEN {<<"status">>} ELSE {})

RECURSIVE LookupsFor(_, _)
LookupsFor(lookups, name) ==
    IF lookups = <<>> THEN 0
    ELSE (IF Head(lookups).Name = name THEN 1 ELSE 0) + LookupsFor(Tail(lookups), name)

\* C25: during one backup extraction exactly one lookup is issued for each member
\* name that appears in the group's phases, in the group's namespace, and a failed
\* lookup is not retried.
C25_OneLookupPerName ==
    (BackupDone /\ ~bkOut.err) =>
        LET members == Members
            lookups == bkOut.lookups
        IN  /\ \A n \in Range(members) : LookupsFor(lookups, n) = 1
            /\ \A j \in DOMAIN lookups :
                  lookups[j].Namespace = bkItem.Namespace /\ lookups[j].Name \in Range(members)

\* C25 as the code has it: one lookup is issued for each occurrence of a member name
\* in the phases, in phase order, in the group's namespace; a name that occurs k
\* times is looked up k times, whether its lookups fail or succeed.
C25_OneLookupPerOccurrence ==
    (BackupDone /\ ~bkOut.err) =>
        LET members == Members
            lookups == bkOut.lookups
        IN  /\ Len(lookups) = Len(members)
            /\ \A j \in DOMAIN lookups :
                  /\ lookups[j].Name = members[j]
                  /\ lookups[j].Namespace = bkItem.Namespace
                  /\ lookups[j].ok = bkApi[members[j]].ok
            /\ \A n \in Range(members) : LookupsFor(lookups, n) = Count(members, n)

C25_Witness ==
    /\ BackupDone
    /\ ~bkOut.err
    /\ Members = <<"vm-1", "vm-1">>
    /\ Len(bkItem.BootOrder.phases) = 2
    /\ Len(bkOut.lookups) = 2
    /\ ~bkOut.lookups[1].ok /\ ~bkOut.lookups[2].ok
    /\ LookupsFor(bkOut.lookups, "vm-1") = 2

(***************************************************************************)
(* Properties of concurrent invocations                                    *)
(***************************************************************************)
\* what the task's Execute returns when it runs alone
Alone(task) ==
    IF task.kind = "vm" THEN VMRestoreExecute(task.item).out
    ELSE IF task.kind = "pvc" THEN PVCRestoreExecute(task.item)
    ELSE VMGroupBackupExecute(task.item, task.api)

\* C26: invocations that run concurrently on different objects do not interfere:
\* under every interleaving each invocation returns the object, the identifiers and
\* the hint it returns when it runs alone, and leaves its own item as it does alone.
C26_NoInterference ==
    \A w \in DOMAIN wk :
        wk[w].pc = "done" =>
            /\ wk[w].out = Alone(wk[w].task)
            /\ wk[w].task.kind = "vm" => wk[w].obj = VMRestoreExecute(wk[w].task.item).after

C26_Witness ==
    /\ op = "concurrent"
    /\ wk[1].pc = "done" /\ wk[2].pc = "done"
    /\ wk[1].overlapped /\ wk[2].overlapped
    /\ wk[1].task.kind = "vm" /\ wk[2].task.kind = "vm"
    /\ wk[1].out.modified /\ wk[1].out.injected /\ ~wk[1].out.err
    /\ ~wk[2].out.modified /\ ~wk[2].out.err
    /\ wk[2].out.additionalItems # <<>>

(***************************************************************************)
(* Further properties of VMRestoreItemAction.Execute                       *)
(***************************************************************************)
\* C27: every successful output of VMRestoreItemAction.Execute has at most one
\* additional item; that item is of resource virtualmachinegroups and is named by
\* the VirtualMachine's own spec.groupName, in the VirtualMachine's namespace; and
\* WaitForAdditionalItems is true exactly when the list of additional items is not
\* empty.
C27_AtMostOneHint ==
    (VMRestoreDone /\ ~vmOut.err) =>
        /\ Len(vmOut.additionalItems) <= 1
        /\ \A j \in DOMAIN vmOut.additionalItems :
              /\ vmOut.additionalItems[j].Resource = "virtualmachinegroups"
              /\ vmOut.additionalItems[j].Group = "vmoperator.vmware.com"
              /\ vmIn.groupName.kind = "string"
              /\ vmOut.additionalItems[j].Name = vmIn.groupName.value
              /\ vmOut.additionalItems[j].Namespace = vmIn.namespace
        /\ vmOut.wait <=> vmOut.additionalItems # <<>>

C27_Witness ==
    /\ op = "vmrestoreTyped"
    /\ vmIn.groupName = [kind |-> "string", value |-> "g2"]
    /\ ~vmOut.err
    /\ Len(vmOut.additionalItems) = 1
    /\ vmOut.additionalItems[1].Name = "g2"
    /\ vmOut.wait

\* C28: when VMRestoreItemAction.Execute returns a conversion error, the input item is
\* as it was before the call: spec.instanceUUID is not cleared, the first-boot-done
\* annotation is not removed and spec.network is not injected.
C28_InputUntouchedOnError ==
    (VMRestoreDone /\ vmOut.err) =>
        /\ vmAfter.instanceUUID = vmIn.instanceUUID
        /\ vmAfter.annotations = vmIn.annotations
        /\ vmAfter.network = vmIn.network
        /\ vmAfter = vmIn

\* the annotations of an item other than the first-boot-done key
OtherAnnotations(item) == {kv \in item.annotations.map : kv[1] # FirstBootDoneKey}

\* C29: VirtualMachine sanitization changes nothing but spec.instanceUUID, the
\* first-boot-done annotation key and spec.network: metadata.name,
\* metadata.namespace, spec.groupName, status.network.config (also after it has been
\* copied) and the other annotations have the same value in the returned item, and
\* in the input item after the call, as in the input item before it.
C29_SanitizationFrame ==
    /\ (VMRestoreDone /\ ~vmOut.err) =>
          /\ vmOut.item[1].name = vmIn.name
          /\ vmOut.item[1].namespace = vmIn.namespace
          /\ vmOut.item[1].groupName.value = vmIn.groupName.value
          /\ op = "vmrestore" => vmOut.item[1].groupName = vmIn.groupName
          /\ vmOut.item[1].statusConfig = vmIn.statusConfig
          /\ OtherAnnotations(vmOut.item[1]) = OtherAnnotations(vmIn)
    /\ VMRestoreDone =>
          /\ vmAfter.name = vmIn.name
          /\ vmAfter.namespace = vmIn.namespace
          /\ vmAfter.groupName = vmIn.groupName
          /\ vmAfter.statusConfig = vmIn.statusConfig
          /\ OtherAnnotations(vmAfter) = OtherAnnotations(vmIn)

C29_Witness ==
    /\ op = "vmrestore"
    /\ vmIn.instanceUUID.value = "abc"
    /\ vmIn.annotations.map = {<<FirstBootDoneKey, "true">>, <<OtherKey, "x">>}
    /\ vmIn.network.kind = "absent"
    /\ vmIn.statusConfig = [kind |-> "map", value |-> NetB]
    /\ vmIn.groupName = [kind |-> "string", value |-> "g1"]
    /\ ~vmOut.err /\ vmOut.injected
    /\ vmOut.item[1].statusConfig = [kind |-> "map", value |-> NetB]
    /\ vmOut.item[1].groupName = vmIn.groupName
    /\ vmOut.item[1].annotations.map = {<<OtherKey, "x">>}

(***************************************************************************)
(* Properties of the restore of a whole backup                             *)
(***************************************************************************)
\* every item of the backup has been created, or refused by its restore action
AllRestored ==
    \A id \in DOMAIN rq.items : rq.pos[id] \in {"created", "failed"}

\* hints go from a VirtualMachine to a VirtualMachineGroup only
OnlyVMToGroupHints ==
    \A id \in DOMAIN rq.items :
        /\ rq.hints[id] # {} => id.Resource = "virtualmachines"
        /\ rq.wait[id] => id.Resource = "virtualmachines"
        /\ \A h \in rq.hints[id] : h.Resource = "virtualmachinegroups"

\* C30: the restore hints never form a waiting cycle: the only hint goes from a
\* VirtualMachine to a VirtualMachineGroup, no registered restore action returns a
\* hint or a wait for a VirtualMachineGroup or a PersistentVolumeClaim, and with an
\* orchestrator that honours the hints the restore of every item of the backup
\* eventually completes, whatever VirtualMachines and groups the backup holds.
C30_RestoreCompletes == []OnlyVMToGroupHints /\ <>[]AllRestored

C30_Witness ==
    /\ op = "restoreBackup"
    /\ AllRestored
    /\ VMIdentifier("ns", "vm-1") \in DOMAIN rq.items
    /\ VMIdentifier("ns", "vm-2") \in DOMAIN rq.items
    /\ VMGroupIdentifier("ns", "g1") \in DOMAIN rq.items
    /\ rq.hints[VMIdentifier("ns", "vm-1")] = {VMGroupIdentifier("ns", "g1")}
    /\ rq.hints[VMIdentifier("ns", "vm-2")] = {VMGroupIdentifier("ns", "g2")}
    /\ rq.wait[VMIdentifier("ns", "vm-1")] /\ rq.wait[VMIdentifier("ns", "vm-2")]
    /\ rq.pos[VMIdentifier("ns", "vm-1")] = "created"
    /\ rq.pos[VMIdentifier("ns", "vm-2")] = "created"
    /\ VMGroupIdentifier("ns", "g1") \in ready
====
